---- MODULE Spec2Model ----
(***************************************************************************)
(* Model of the checkpointed collection pipeline                           *)
(* (app/preprocessor/collectionprocessor.py) and of the schema-driven      *)
(* structure extractor (structureextractor.py).                            *)
(*                                                                         *)
(* Strings of the program are sequences of one-character strings, so that  *)
(* substring containment ("true" in s, "[3]" in s), lower(), str() and     *)
(* int() are computed as Python computes them.                             *)
(***************************************************************************)
EXTENDS Integers, Sequences, FiniteSets, TLC

\* ------------------------------------------------------------------ bounds
MaxFiles == 3      \* entries of the directory listing
MaxDocs == 2       \* largest id in the documents table

\* ----------------------------------------------------------------- strings
sTrue == <<"t", "r", "u", "e">>
sFalse == <<"f", "a", "l", "s", "e">>
sTrueCap == <<"T", "r", "u", "e">>
sTrueUpper == <<"T", "R", "U", "E">>
sEmpty == <<>>

\* str.lower() on one character
LowerChar(c) ==
    CASE c = "T" -> "t"
      [] c = "R" -> "r"
      [] c = "U" -> "u"
      [] c = "E" -> "e"
      [] c = "X" -> "x"
      [] c = "M" -> "m"
      [] c = "L" -> "l"
      [] OTHER -> c

\* str.lower()
Lower(s) == [i \in 1..Len(s) |-> LowerChar(s[i])]

\* Python's  sub in s  for strings
Contains(sub, s) ==
    \E i \in 0..(Len(s) - Len(sub)) : SubSeq(s, i + 1, i + Len(sub)) = sub

Digit(d) == <<"0", "1", "2", "3", "4", "5", "6", "7", "8", "9">>[d + 1]

RECURSIVE IntToStr(_)
\* str(n) for n >= 0
IntToStr(n) == IF n < 10 THEN <<Digit(n)>> ELSE IntToStr(n \div 10) \o <<Digit(n % 10)>>

DigitValue(c) == CHOOSE d \in 0..9 : Digit(d) = c

RECURSIVE StrToInt(_)
\* int(s) for a string of decimal digits
StrToInt(s) ==
    IF Len(s) = 0 THEN 0
    ELSE 10 * StrToInt(SubSeq(s, 1, Len(s) - 1)) + DigitValue(s[Len(s)])

\* "[" + str(n) + "]"
Token(n) == <<"[">> \o IntToStr(n) \o <<"]">>

\* ------------------------------------------------------------------ ledger
kRecorded == "finished_recording_text_and_metadata"
kFiles == "text_and_metadata_recorded"
kGrammar == "finished_grammatical_processing"
kLatest == "latest_parsed_document_id"
kCounts == "word_counts_done"
kTfidf == "tfidf_done"
kSimilarity == "word_similarity_calculations_done"

FlagKeys == {kRecorded, kGrammar, kCounts, kTfidf, kSimilarity}
Keys == FlagKeys \cup {kFiles, kLatest}

REPLACE == "replace"
UPDATE == "update"
APPEND == "append"

\* logger.get(key): the stored string, "" when the key is absent
LoggerGet(led, key) == led[key]

\* logger.log(key, value, mode)
LoggerLog(led, key, value, mode) ==
    CASE mode = REPLACE -> [led EXCEPT ![key] = value]
      [] mode = UPDATE -> [led EXCEPT ![key] = value]
      [] mode = APPEND -> [led EXCEPT ![key] = led[key] \o value]

EmptyLedger == [k \in Keys |-> sEmpty]

\* --------------------------------------------------------------- directory
\* One entry of os.listdir(collection_dir): does the name start with ".",
\* and what os.path.splitext(name)[1] is.
extXml == <<".", "x", "m", "l">>
extXmlUpper == <<".", "X", "M", "L">>
extTxt == <<".", "t", "x", "t">>

FileKinds ==
    { [hidden |-> FALSE, ext |-> extXml],
      [hidden |-> FALSE, ext |-> extXmlUpper],
      [hidden |-> TRUE, ext |-> extXml],
      [hidden |-> FALSE, ext |-> extTxt] }

filename_extension == extXml

\* lines 115-119: the names whose extension matches, in listing order
IsCandidate(f) == Lower(f.ext) = Lower(filename_extension)

Contents(listing) == SelectSeq(listing, IsCandidate)

\* ascending list of the ids of a set of documents (Document.query.all())
RECURSIVE SortedIds(_)
SortedIds(S) ==
    IF S = {} THEN <<>>
    ELSE LET m == CHOOSE x \in S : \A y \in S : x <= y
         IN <<m>> \o SortedIds(S \ {m})

\* ------------------------------------------------------------------- state
VARIABLES
    ledger,            \* the persisted log table: key -> string
    listing,           \* os.listdir(collection_dir)
    docs,              \* ids of the rows of the documents table
    config,            \* app.config toggles
    pc,                \* position of the running process() call, "idle" if none
    num_files_done,    \* local of extract_record_metadata
    latest_id,         \* local of parse_documents
    documents_parsed,  \* local of parse_documents
    halt,              \* how the last call of process() ended
    haltAt,            \* the stage in which it ended
    restart,           \* the running call restarts a call aborted during extraction
    prevStarted,       \* candidate indices that aborted call had handed to the extractor
    extractLog,        \* candidate indices handed to extractor.extract, this run
    parseLog,          \* document ids handed to parse_document, this run
    filesExtracted,    \* candidate indices whose extract() returned, since the last reset
    docsParsed,        \* document ids whose parse_document() returned, since the last reset
    filesDone,         \* candidate indices whose extract and marker write completed
    docsDone,          \* document ids whose parse and marker write completed
    filesDoneAtStart,  \* filesDone when the running call started
    docsDoneAtStart,   \* docsDone when the running call started
    ledgerAtStart,     \* ledger when the running call started (after any reset)
    structure_file,    \* the JSON grammar handed to a StructureExtractor
    document_structure,\* StructureExtractor.document_structure
    xpc,               \* position of the extractor: "off", "new", "ready", "done"
    xresult            \* outcome of StructureExtractor.extract

vars ==
    << ledger, listing, docs, config, pc, num_files_done, latest_id, documents_parsed,
       halt, haltAt, restart, prevStarted, extractLog, parseLog, filesExtracted, docsParsed, filesDone, docsDone,
       filesDoneAtStart, docsDoneAtStart, ledgerAtStart,
       structure_file, document_structure, xpc, xresult >>

xvars == << structure_file, document_structure, xpc, xresult >>
env == << listing, config, xvars >>
locals == << num_files_done, latest_id, documents_parsed >>
hist == << extractLog, parseLog, filesExtracted, docsParsed, filesDone, docsDone >>
snap == << filesDoneAtStart, docsDoneAtStart, ledgerAtStart, restart, prevStarted >>
ended == << halt, haltAt >>

ExtractPcs == {"file_loop", "log_recording", "extract", "log_file", "finish_extract"}
ParsePcs == {"parse_init", "doc_loop", "parse", "log_grammar", "log_latest", "count"}

\* the stage a position belongs to
StageOf(p) ==
    IF p \in ExtractPcs THEN "extraction" ELSE IF p \in ParsePcs THEN "parsing" ELSE "process"

Range(q) == {q[k] : k \in 1..Len(q)}

Configs == [GRAMMATICAL_PROCESSING : BOOLEAN, WORD_TO_WORD_SIMILARITY : BOOLEAN,
            PART_OF_SPEECH_TAGGING : BOOLEAN]

Regular == [hidden |-> FALSE, ext |-> extXml]

\* directory listings of MaxFiles entries, at most one of which is not a plain
\* visible file with the wanted extension
Listings ==
    { l \in [1..MaxFiles -> FileKinds] :
        Cardinality({i \in 1..MaxFiles : l[i] # Regular}) <= 1 }

\* document tables: ids 1..n
DocTables == { 1..n : n \in 0..MaxDocs }

Documents == SortedIds(docs)

\* the surroundings of a collection: directory, documents table, toggles
InitEnv ==
    /\ listing \in Listings
    /\ docs \in DocTables
    /\ config \in Configs

\* no call of process() has been made
InitRun ==
    /\ pc = "idle"
    /\ num_files_done = 1
    /\ latest_id = 0
    /\ documents_parsed = 0
    /\ halt = "none"
    /\ haltAt = "idle"
    /\ restart = FALSE
    /\ prevStarted = {}
    /\ extractLog = <<>>
    /\ parseLog = <<>>
    /\ filesExtracted = {}
    /\ docsParsed = {}
    /\ filesDone = {}
    /\ docsDone = {}
    /\ filesDoneAtStart = {}
    /\ docsDoneAtStart = {}

\* no StructureExtractor is under study
ExtractorOff ==
    /\ structure_file = <<>>
    /\ document_structure = <<>>
    /\ xpc = "off"
    /\ xresult = <<>>

\* a freshly created database: no ledger entry exists
Init ==
    /\ ledger = EmptyLedger
    /\ ledgerAtStart = EmptyLedger
    /\ InitEnv
    /\ InitRun
    /\ ExtractorOff

\* ------------------------------------------------------------ process()
\* "true" in logger.get(key)                       (lines 56, 83)
FlagTrueExact(led, key) == Contains(sTrue, LoggerGet(led, key))

\* "true" in logger.get(key).lower()               (lines 65, 71, 77)
FlagTrueLower(led, key) == Contains(sTrue, Lower(LoggerGet(led, key)))

\* lines 62-64
ParsingEnabled(cfg) ==
    \/ cfg.GRAMMATICAL_PROCESSING
    \/ (cfg.WORD_TO_WORD_SIMILARITY /\ cfg.PART_OF_SPEECH_TAGGING)

\* database.reset(): the tables are recreated, so the ledger and the documents
\* table are empty afterwards
Reset ==
    /\ ledger' = EmptyLedger
    /\ docs' = {}
    /\ filesExtracted' = {}
    /\ docsParsed' = {}
    /\ filesDone' = {}
    /\ docsDone' = {}

\* lines 48-52: a call of process(..., start_from_scratch)
Start ==
    /\ pc = "idle"
    /\ \E start_from_scratch \in BOOLEAN :
          /\ IF start_from_scratch
             THEN Reset
             ELSE UNCHANGED << ledger, docs, filesExtracted, docsParsed, filesDone,
                               docsDone >>
          /\ restart' = (~start_from_scratch /\ halt \in {"crashed", "raised"}
                                             /\ haltAt = "extraction")
    /\ prevStarted' = IF restart' THEN Range(extractLog) ELSE {}
    /\ pc' = "gate_extract"
    /\ halt' = "none"
    /\ haltAt' = "idle"
    /\ extractLog' = <<>>
    /\ parseLog' = <<>>
    /\ filesDoneAtStart' = filesDone'
    /\ docsDoneAtStart' = docsDone'
    /\ ledgerAtStart' = ledger'
    /\ UNCHANGED << env, locals >>

\* GateExtract with the stage flag not consulted
GateExtract_Ungated ==
    /\ pc = "gate_extract"
    /\ pc' = "file_loop"
    /\ num_files_done' = 1
    /\ UNCHANGED << ledger, docs, env, latest_id, documents_parsed, ended, hist, snap >>

\* line 56, and lines 110-121 when the stage is entered
GateExtract ==
    /\ pc = "gate_extract"
    /\ IF ~FlagTrueExact(ledger, kRecorded)
       THEN /\ pc' = "file_loop"
            /\ num_files_done' = 1
       ELSE /\ pc' = "gate_parse"
            /\ UNCHANGED num_files_done
    /\ UNCHANGED << ledger, docs, env, latest_id, documents_parsed, ended, hist, snap >>

\* lines 124-126: is the file with this index still to be extracted?
NeedsExtraction(led, n, f) ==
    /\ ~Contains(Token(n), LoggerGet(led, kFiles))
    /\ ~f.hidden

\* FileLoop leaving the loop one file early
FileLoop_StopsEarly ==
    /\ pc = "file_loop"
    /\ IF num_files_done >= Len(Contents(listing))
       THEN /\ pc' = "finish_extract"
            /\ UNCHANGED num_files_done
       ELSE IF NeedsExtraction(ledger, num_files_done, Contents(listing)[num_files_done])
       THEN /\ pc' = "log_recording"
            /\ UNCHANGED num_files_done
       ELSE /\ pc' = "file_loop"
            /\ num_files_done' = num_files_done + 1
    /\ UNCHANGED << ledger, docs, env, latest_id, documents_parsed, ended, hist, snap >>

\* lines 123-126 and 144: loop head of extract_record_metadata
FileLoop ==
    /\ pc = "file_loop"
    /\ IF num_files_done > Len(Contents(listing))
       THEN /\ pc' = "finish_extract"
            /\ UNCHANGED num_files_done
       ELSE IF NeedsExtraction(ledger, num_files_done, Contents(listing)[num_files_done])
       THEN /\ pc' = "log_recording"
            /\ UNCHANGED num_files_done
       ELSE /\ pc' = "file_loop"
            /\ num_files_done' = num_files_done + 1
    /\ UNCHANGED << ledger, docs, env, latest_id, documents_parsed, ended, hist, snap >>

\* LogRecording with the file's marker written before the extraction
LogRecording_MarksFirst ==
    /\ pc = "log_recording"
    /\ ledger' = LoggerLog(LoggerLog(ledger, kRecorded, sFalse, REPLACE),
                           kFiles, IntToStr(num_files_done), UPDATE)
    /\ pc' = "extract"
    /\ UNCHANGED << docs, env, locals, ended, hist, snap >>

\* lines 127-128
LogRecording ==
    /\ pc = "log_recording"
    /\ ledger' = LoggerLog(ledger, kRecorded, sFalse, REPLACE)
    /\ pc' = "extract"
    /\ UNCHANGED << docs, env, locals, ended, hist, snap >>

\* lines 130-139: extractor.extract(...) returns
ExtractReturns ==
    /\ pc = "extract"
    /\ extractLog' = Append(extractLog, num_files_done)
    /\ filesExtracted' = filesExtracted \cup {num_files_done}
    /\ pc' = "log_file"
    /\ UNCHANGED << ledger, docs, env, locals, ended, parseLog, docsParsed, filesDone,
                    docsDone, snap >>

\* lines 131-132: extractor.extract(...) raises; nothing catches it
ExtractRaises ==
    /\ pc = "extract"
    /\ extractLog' = Append(extractLog, num_files_done)
    /\ pc' = "idle"
    /\ halt' = "raised"
    /\ haltAt' = StageOf(pc)
    /\ UNCHANGED << ledger, docs, env, locals, parseLog, filesExtracted, docsParsed,
                    filesDone, docsDone, snap >>

\* lines 140-141 and 144
LogFile ==
    /\ pc = "log_file"
    /\ ledger' = LoggerLog(ledger, kFiles, IntToStr(num_files_done), UPDATE)
    /\ filesDone' = filesDone \cup {num_files_done}
    /\ num_files_done' = num_files_done + 1
    /\ pc' = "file_loop"
    /\ UNCHANGED << docs, env, latest_id, documents_parsed, ended, extractLog, parseLog,
                    filesExtracted, docsParsed, docsDone, snap >>

\* FinishExtract with the stage flag left as the loop wrote it
FinishExtract_FlagUnset ==
    /\ pc = "finish_extract"
    /\ pc' = "gate_parse"
    /\ UNCHANGED << ledger, docs, env, locals, ended, hist, snap >>

\* lines 146-147
FinishExtract ==
    /\ pc = "finish_extract"
    /\ ledger' = LoggerLog(ledger, kRecorded, sTrue, REPLACE)
    /\ pc' = "gate_parse"
    /\ UNCHANGED << docs, env, locals, ended, hist, snap >>

\* lines 62-65
GateParse ==
    /\ pc = "gate_parse"
    /\ IF ParsingEnabled(config) /\ ~FlagTrueLower(ledger, kGrammar)
       THEN pc' = "parse_init"
       ELSE pc' = "gate_counts"
    /\ UNCHANGED << ledger, docs, env, locals, ended, hist, snap >>

\* lines 164-169: the marker as an integer, "0" when it is absent
LatestId(led) ==
    LET latest == LoggerGet(led, kLatest)
    IN StrToInt(IF Len(latest) = 0 THEN <<"0">> ELSE latest)

\* lines 160-169
ParseInit ==
    /\ pc = "parse_init"
    /\ documents_parsed' = 0
    /\ latest_id' = LatestId(ledger)
    /\ pc' = "doc_loop"
    /\ UNCHANGED << ledger, docs, env, num_files_done, ended, hist, snap >>

\* NeedsParsing with the marker's own document included
NeedsParsing_Inclusive(id, latest) == id >= latest

\* line 172
NeedsParsing(id, latest) == id > latest

\* lines 171-172 and 185: loop head of parse_documents
DocLoop ==
    /\ pc = "doc_loop"
    /\ IF documents_parsed >= Len(Documents)
       THEN /\ pc' = "count"
            /\ UNCHANGED documents_parsed
       ELSE IF NeedsParsing(Documents[documents_parsed + 1], latest_id)
       THEN /\ pc' = "parse"
            /\ UNCHANGED documents_parsed
       ELSE /\ pc' = "doc_loop"
            /\ documents_parsed' = documents_parsed + 1
    /\ UNCHANGED << ledger, docs, env, num_files_done, latest_id, ended, hist, snap >>

\* lines 173-179: parse_document(document) returns
ParseReturns ==
    /\ pc = "parse"
    /\ parseLog' = Append(parseLog, Documents[documents_parsed + 1])
    /\ docsParsed' = docsParsed \cup {Documents[documents_parsed + 1]}
    /\ pc' = "log_grammar"
    /\ UNCHANGED << ledger, docs, env, locals, ended, extractLog, filesExtracted,
                    filesDone, docsDone, snap >>

\* line 176: parse_document(document) raises; nothing catches it
ParseRaises ==
    /\ pc = "parse"
    /\ parseLog' = Append(parseLog, Documents[documents_parsed + 1])
    /\ pc' = "idle"
    /\ halt' = "raised"
    /\ haltAt' = StageOf(pc)
    /\ UNCHANGED << ledger, docs, env, locals, extractLog, filesExtracted, docsParsed,
                    filesDone, docsDone, snap >>

\* lines 180-181
LogGrammar ==
    /\ pc = "log_grammar"
    /\ ledger' = LoggerLog(ledger, kGrammar, sFalse, REPLACE)
    /\ pc' = "log_latest"
    /\ UNCHANGED << docs, env, locals, ended, hist, snap >>

\* lines 182-183 and 185
LogLatest ==
    /\ pc = "log_latest"
    /\ ledger' = LoggerLog(ledger, kLatest, IntToStr(Documents[documents_parsed + 1]),
                           REPLACE)
    /\ docsDone' = docsDone \cup {Documents[documents_parsed + 1]}
    /\ documents_parsed' = documents_parsed + 1
    /\ pc' = "doc_loop"
    /\ UNCHANGED << docs, env, num_files_done, latest_id, ended, extractLog, parseLog,
                    filesExtracted, docsParsed, filesDone, snap >>

\* line 187: counter.count(), the last statement of parse_documents
Count ==
    /\ pc = "count"
    /\ pc' = "parsed"
    /\ UNCHANGED << ledger, docs, env, locals, ended, hist, snap >>

\* line 68: parse_documents has returned
AfterParse ==
    /\ pc = "parsed"
    /\ pc' = "gate_counts"
    /\ UNCHANGED << ledger, docs, env, locals, ended, hist, snap >>

\* lines 71-74
GateCounts ==
    /\ pc = "gate_counts"
    /\ IF ~FlagTrueLower(ledger, kCounts)
       THEN ledger' = LoggerLog(ledger, kCounts, sTrue, REPLACE)
       ELSE UNCHANGED ledger
    /\ pc' = "gate_tfidf"
    /\ UNCHANGED << docs, env, locals, ended, hist, snap >>

\* lines 77-79: the stage body only writes to the application log
GateTfidf ==
    /\ pc = "gate_tfidf"
    /\ pc' = "gate_similarity"
    /\ UNCHANGED << ledger, docs, env, locals, ended, hist, snap >>

\* lines 82-85: the stage body only writes to the application log; process returns
GateSimilarity ==
    /\ pc = "gate_similarity"
    /\ pc' = "idle"
    /\ halt' = "returned"
    /\ haltAt' = StageOf(pc)
    /\ UNCHANGED << ledger, docs, env, locals, hist, snap >>

\* the process is killed while process() runs
Crash ==
    /\ pc # "idle"
    /\ pc' = "idle"
    /\ halt' = "crashed"
    /\ haltAt' = StageOf(pc)
    /\ UNCHANGED << ledger, docs, env, locals, hist, snap >>

Next ==
    \/ Start
    \/ GateExtract
    \/ FileLoop
    \/ LogRecording
    \/ ExtractReturns
    \/ ExtractRaises
    \/ LogFile
    \/ FinishExtract
    \/ GateParse
    \/ ParseInit
    \/ DocLoop
    \/ ParseReturns
    \/ ParseRaises
    \/ LogGrammar
    \/ LogLatest
    \/ Count
    \/ AfterParse
    \/ GateCounts
    \/ GateTfidf
    \/ GateSimilarity
    \/ Crash

Spec == Init /\ [][Next]_vars

\* ======================================================================
\* structureextractor.py
\* ======================================================================
\* ---------------------------------------------------------------- bounds
MaxChildRules == 2   \* entries of a rule's "units" list

\* ----------------------------------------------------------- XML documents
\* A parsed file: nodes are numbered in document order; node 1 is the root.
\*   <root><doc class="a b"><p id="x"><s> Hi</s><s>Yo </s></p><p><s>Ok</s></p></doc>
\*         <doc><p><s>Me</s></p></doc></root>
NodeIds == 1..11

Element(tag, kids, text, attrs) == [tag |-> tag, kids |-> kids, text |-> text, attrs |-> attrs]

NoAttrs == [a \in {} |-> <<>>]

XmlFile ==
    [n \in NodeIds |->
       CASE n = 1 -> Element("root", <<2, 9>>, <<>>, NoAttrs)
         [] n = 2 -> Element("doc", <<3, 7>>, <<>>, [a \in {"class"} |-> <<"a", " ", "b">>])
         [] n = 3 -> Element("p", <<4, 5, 6>>, <<>>, [a \in {"id"} |-> <<"x">>])
         [] n = 4 -> Element("s", <<>>, <<" ", "H", "i">>, NoAttrs)
         [] n = 5 -> Element("s", <<>>, <<"Y", "o", " ">>, NoAttrs)
         [] n = 6 -> Element("t", <<>>, <<"T">>, NoAttrs)
         [] n = 7 -> Element("p", <<8>>, <<>>, NoAttrs)
         [] n = 8 -> Element("s", <<>>, <<"O", "k">>, NoAttrs)
         [] n = 9 -> Element("doc", <<10>>, <<>>, NoAttrs)
         [] n = 10 -> Element("p", <<11>>, <<>>, NoAttrs)
         [] n = 11 -> Element("s", <<>>, <<"M", "e">>, [a \in {"class"} |-> <<"c">>]) ]

RECURSIVE Descendants(_), DescendantsOfAll(_)
\* the nodes below n, in document order
Descendants(n) == DescendantsOfAll(XmlFile[n].kids)

DescendantsOfAll(nodes) ==
    IF nodes = <<>> THEN <<>>
    ELSE <<Head(nodes)>> \o Descendants(Head(nodes)) \o DescendantsOfAll(Tail(nodes))

WithTag(nodes, tag) == SelectSeq(nodes, LAMBDA m : XmlFile[m].tag = tag)

\* the XPath expressions the grammars use: "" and " " are blank, "t" selects
\* the child elements named t, "//t" the descendants named t
XPaths == {"", " ", "doc", "p", "s", "t", "//doc", "//p"}

\* len(xpath.strip()) == 0
IsBlank(xpath) == xpath \in {"", " "}

\* node.xpath(xpath_pattern), in document order
XPathEval(n, xpath) ==
    CASE xpath = "//doc" -> WithTag(Descendants(n), "doc")
      [] xpath = "//p" -> WithTag(Descendants(n), "p")
      [] OTHER -> WithTag(XmlFile[n].kids, xpath)

\* what get_nodes_from_xpath returns: the node itself for a blank selector,
\* the list of matches otherwise
get_nodes_from_xpath(xpath, n) ==
    IF IsBlank(xpath) THEN [single |-> TRUE, nodes |-> <<n>>]
    ELSE [single |-> FALSE, nodes |-> XPathEval(n, xpath)]

RECURSIVE KidsOfAll(_)
KidsOfAll(nodes) ==
    IF nodes = <<>> THEN <<>>
    ELSE XmlFile[Head(nodes)].kids \o KidsOfAll(Tail(nodes))

\* nodes.children: the direct children of the matched node(s)
ChildrenOf(found) == KidsOfAll(found.nodes)

\* for x in nodes: iterating an element yields its children, iterating a list
\* of matches yields the matches
IterNodes(found) == IF found.single THEN KidsOfAll(found.nodes) ELSE found.nodes

\* ------------------------------------------------------------ more strings
IsSpace(c) == c \in {" ", "\n"}

RECURSIVE LStrip(_)
LStrip(s) == IF s # <<>> /\ IsSpace(Head(s)) THEN LStrip(Tail(s)) ELSE s

RECURSIVE RStrip(_)
RStrip(s) ==
    IF s # <<>> /\ IsSpace(s[Len(s)]) THEN RStrip(SubSeq(s, 1, Len(s) - 1)) ELSE s

\* str.strip()
Strip(s) == LStrip(RStrip(s))

RECURSIVE SplitOn(_, _)
\* str.split(sep) for a one-character separator: "".split(" ") is [""]
SplitOn(s, sep) ==
    IF \A i \in 1..Len(s) : s[i] # sep THEN <<s>>
    ELSE LET k == CHOOSE i \in 1..Len(s) : s[i] = sep /\ \A j \in 1..(i - 1) : s[j] # sep
         IN <<SubSeq(s, 1, k - 1)>> \o SplitOn(SubSeq(s, k + 1, Len(s)), sep)

sSentence == <<"s", "e", "n", "t", "e", "n", "c", "e">>
sSentenceBlock == sSentence \o <<"B", "l", "o", "c", "k">>
sPara == <<"p", "a", "r", "a">>
sDoc == <<"d", "o", "c">>

\* --------------------------------------------------------------- outcomes
\* a call either returns a value or raises an exception nothing catches
Ok(v) == [err |-> "", val |-> v]
Raise(e) == [err |-> e, val |-> <<>>]

\* d[key] on a dict loaded from JSON, inside  try: ... except NameError:
\* a missing key raises KeyError, which the handler does not catch
HasKey(d, key) == key \in d.keys

\* ------------------------------------------------------- metadata (166-261)
\* JSON null for "attr"
NoneAttr == "<null>"

\* node.get(attribute).split(" "): None.split raises AttributeError
AttributeValues(n, attribute) ==
    IF attribute \in DOMAIN XmlFile[n].attrs
    THEN Ok(SplitOn(XmlFile[n].attrs[attribute], " "))
    ELSE Raise("AttributeError")

RECURSIVE AttributeValuesOfAll(_, _)
AttributeValuesOfAll(nodes, attribute) ==
    IF nodes = <<>> THEN Ok(<<>>)
    ELSE LET first == AttributeValues(Head(nodes), attribute)
         IN IF first.err # "" THEN first
            ELSE LET rest == AttributeValuesOfAll(Tail(nodes), attribute)
                 IN IF rest.err # "" THEN rest ELSE Ok(first.val \o rest.val)

\* lines 213-239
get_xpath_attribute(xpath_pattern, attribute, n) ==
    IF IsBlank(xpath_pattern)
    THEN AttributeValues(n, attribute)
    ELSE AttributeValuesOfAll(XPathEval(n, xpath_pattern), attribute)

RECURSIVE TextOf(_), TextOfAll(_)
\* etree.tostring(node, method="text"): the text of the node and of its descendants
TextOf(n) == XmlFile[n].text \o TextOfAll(XmlFile[n].kids)

TextOfAll(nodes) ==
    IF nodes = <<>> THEN <<>> ELSE TextOf(Head(nodes)) \o TextOfAll(Tail(nodes))

\* lines 241-261: with a selector, line 257 serialises the list of matches,
\* which etree.tostring rejects with TypeError
get_xpath_text(xpath_pattern, n) ==
    IF IsBlank(xpath_pattern)
    THEN Ok(<<TextOf(n)>>)
    ELSE IF XPathEval(n, xpath_pattern) = <<>> THEN Ok(<<>>) ELSE Raise("TypeError")

Metadata(value, spec) ==
    [value |-> value, property_name |-> spec.propertyName, specification |-> spec]

\* line 206-210: a Metadata for each extracted value
MetadataFor(extracted, spec) ==
    [k \in 1..Len(extracted) |-> Metadata(extracted[k], spec)]

\* lines 201-205
Extracted(spec, xpath, n) ==
    IF spec.attr # NoneAttr
    THEN get_xpath_attribute(xpath, spec.attr, n)
    ELSE get_xpath_text(xpath, n)

RECURSIVE MetadataOfSpec(_, _, _, _)
\* lines 199-210 for one metadata rule, from its i-th XPath on
MetadataOfSpec(spec, n, i, metadata) ==
    IF i > Len(spec.xpaths) THEN Ok(metadata)
    ELSE LET extracted == Extracted(spec, spec.xpaths[i], n)
         IN IF extracted.err # "" THEN extracted
            ELSE MetadataOfSpec(spec, n, i + 1, metadata \o MetadataFor(extracted.val, spec))

RECURSIVE MetadataLoop(_, _, _, _)
\* lines 187-210, from the i-th rule on
MetadataLoop(metadata_structure, n, i, metadata) ==
    IF i > Len(metadata_structure) THEN Ok(metadata)
    ELSE LET spec == metadata_structure[i]
         IN IF ~HasKey(spec, "xpaths") \/ ~HasKey(spec, "attr")
            THEN Raise("KeyError")
            ELSE LET got == MetadataOfSpec(spec, n, 1, metadata)
                 IN IF got.err # "" THEN got
                    ELSE MetadataLoop(metadata_structure, n, i + 1, got.val)

\* lines 166-211
get_metadata(metadata_structure, n) == MetadataLoop(metadata_structure, n, 1, <<>>)

\* ------------------------------------------------------ sentences (112-163)
\* the tokenizer: one Sentence for each non-empty line of the text
Tokenize(text) == SelectSeq(SplitOn(text, "\n"), LAMBDA line : line # <<>>)

RECURSIVE SentenceNodes(_, _, _)
\* lines 133-137: the sentence nodes of a rule, from its i-th XPath on
SentenceNodes(structure, parent_node, i) ==
    IF i > Len(structure.xpaths) THEN <<>>
    ELSE IterNodes(get_nodes_from_xpath(structure.xpaths[i], parent_node))
             \o SentenceNodes(structure, parent_node, i + 1)

\* lines 142-157: the tokenizer's sentences, each given the one metadata list
Sentences(sentence_text, sentence_metadata) ==
    LET sents == Tokenize(sentence_text)
    IN [k \in 1..Len(sents) |-> [sentence |-> sents[k], metadata |-> sentence_metadata]]

RECURSIVE SentenceLoop(_, _, _, _, _)
\* lines 137-157, from the i-th sentence node on; the text of an element
\* without text is None, and None.strip() raises AttributeError
SentenceLoop(structure, nodes, i, sentence_text, sentence_metadata) ==
    IF i > Len(nodes) THEN Ok(Sentences(sentence_text, sentence_metadata))
    ELSE IF XmlFile[nodes[i]].text = <<>> THEN Raise("AttributeError")
    ELSE LET got == get_metadata(structure.metadata, nodes[i])
         IN IF got.err # "" THEN got
            ELSE SentenceLoop(structure, nodes, i + 1,
                              sentence_text \o Strip(XmlFile[nodes[i]].text) \o <<"\n">>,
                              Append(sentence_metadata, got.val))

\* lines 112-163, tokenize = True
get_sentences(structure, parent_node) ==
    IF ~HasKey(structure, "metadata") THEN Raise("KeyError")
    ELSE SentenceLoop(structure, SentenceNodes(structure, parent_node, 1), 1, <<>>, <<>>)

\* ---------------------------------------------------------- units (63-110)
Unit(metadata, units, sentences, name) ==
    [metadata |-> metadata, units |-> units, sentences |-> sentences, name |-> name]

\* line 101
IsSentenceRule(child_type) == Contains(sSentence, child_type)

RECURSIVE Flatten(_)
\* list.extend over a list of lists
Flatten(lists) == IF lists = <<>> THEN <<>> ELSE Head(lists) \o Flatten(Tail(lists))

\* the loops below run their iterations in order and stop at the first one that
\* raises: the outcome of that iteration, if any
Raised(outcomes) == \E k \in 1..Len(outcomes) : outcomes[k].err # ""

FirstRaised(outcomes) ==
    outcomes[CHOOSE k \in 1..Len(outcomes) :
                /\ outcomes[k].err # ""
                /\ \A j \in 1..(k - 1) : outcomes[j].err = ""]

Values(outcomes) == [k \in 1..Len(outcomes) |-> outcomes[k].val]

RECURSIVE CandidateNodes(_, _, _)
\* lines 77-82: the nodes the loops visit, from the i-th XPath on
CandidateNodes(structure, parent_node, i) ==
    IF i > Len(structure.xpaths) THEN <<>>
    ELSE ChildrenOf(get_nodes_from_xpath(structure.xpaths[i], parent_node))
             \o CandidateNodes(structure, parent_node, i + 1)

\* lines 89-107: what the loop over the child rules leaves in children and sents,
\* given the outcome of the call made for each child rule
ChildrenAndSents(child_unit_structures, outcomes) ==
    LET terminal == {n \in 1..Len(outcomes) :
                        IsSentenceRule(child_unit_structures[n].structureName)}
        others == (1..Len(outcomes)) \ terminal
    IN [children |-> Flatten([n \in 1..Len(outcomes) |->
                                 IF n \in terminal THEN outcomes[n].val ELSE <<>>]),
        sents |-> IF others = {} THEN <<>>
                  ELSE outcomes[CHOOSE n \in others : \A m \in others : m <= n].val]

\* lines 98-107: the call made for each child rule of one node; recursed[n] is
\* the outcome of the recursive call of lines 102-103 for the n-th child rule
ChildCalls(structure, node, recursed) ==
    [n \in 1..Len(structure.units) |->
        IF IsSentenceRule(structure.units[n].structureName)
        THEN recursed[n]
        ELSE get_sentences(structure.units[n], node)]

\* lines 97-109: the Unit of one node, its metadata given
UnitWith(structure, unit_metadata, calls) ==
    IF Raised(calls) THEN FirstRaised(calls)
    ELSE Ok(Unit(unit_metadata, ChildrenAndSents(structure.units, calls).children,
                 ChildrenAndSents(structure.units, calls).sents, structure.structureName))

\* lines 83-109: one candidate node
UnitOf(structure, node, recursed) ==
    IF ~HasKey(structure, "metadata") THEN Raise("KeyError")
    ELSE IF get_metadata(structure.metadata, node).err # ""
    THEN get_metadata(structure.metadata, node)
    ELSE IF ~HasKey(structure, "units") THEN Raise("KeyError")
    ELSE UnitWith(structure, get_metadata(structure.metadata, node).val,
                  ChildCalls(structure, node, recursed))

\* lines 77-110: the Units of the candidate nodes, in order, or the first exception
UnitsOf(outcomes) == IF Raised(outcomes) THEN FirstRaised(outcomes) ELSE Ok(Values(outcomes))

RECURSIVE extract_unit_information(_, _)
\* lines 63-110
extract_unit_information(structure, parent_node) ==
    UnitsOf([j \in 1..Len(CandidateNodes(structure, parent_node, 1)) |->
               UnitOf(structure, CandidateNodes(structure, parent_node, 1)[j],
                      [n \in 1..Len(structure.units) |->
                          extract_unit_information(
                              structure.units[n],
                              CandidateNodes(structure, parent_node, 1)[j])])])

\* ------------------------------------------------------ grammars (JSON)
Rule(keys, name, xpaths, metadata, units) ==
    [keys |-> keys, structureName |-> name, xpaths |-> xpaths, metadata |-> metadata,
     units |-> units]

MetaRule(keys, xpaths, attr, propertyName) ==
    [keys |-> keys, xpaths |-> xpaths, attr |-> attr, propertyName |-> propertyName]

BothKeys == {"metadata", "units"}

\* the "metadata" lists of the grammars
MetaLists ==
    { <<>>,
      << MetaRule({"xpaths", "attr"}, <<"">>, "class", "cls") >>,
      << MetaRule({"xpaths", "attr"}, <<"">>, NoneAttr, "text") >>,
      << MetaRule({"xpaths", "attr"}, <<"s">>, "class", "cls") >>,
      << MetaRule({"xpaths", "attr"}, <<"">>, "class", "cls"),
         MetaRule({"xpaths", "attr"}, <<"">>, NoneAttr, "text") >> }

\* a rule of the innermost level
LeafRule == Rule({"metadata"}, sPara, <<"">>, <<>>, <<>>)

\* the rules a "units" list is made of
ChildRules ==
    { r \in { Rule(keys, name, <<xpath>>, <<>>, units) :
                keys \in {BothKeys, {"metadata"}, {}},
                name \in {sSentence, sSentenceBlock, sPara},
                xpath \in {"", "p", "s"},
                units \in {<<>>, <<LeafRule>>} } :
        r.units = <<>> \/ "units" \in r.keys }

RECURSIVE SeqsUpTo(_, _)
\* the sequences over S of length at most n
SeqsUpTo(S, n) ==
    IF n = 0 THEN {<<>>}
    ELSE LET shorter == SeqsUpTo(S, n - 1)
         IN shorter \cup {Append(q, x) : q \in shorter, x \in S}

\* the grammars a StructureExtractor is given
Grammars ==
    { Rule(keys, sDoc, <<xpath>>, metadata, IF "units" \in keys THEN units ELSE <<>>) :
        keys \in SUBSET BothKeys,
        xpath \in {"//doc", ""},
        metadata \in MetaLists,
        units \in SeqsUpTo(ChildRules, MaxChildRules) }

\* -------------------------------------------------- StructureExtractor
\* lines 17-28: __init__ loads the grammar
Construct ==
    /\ xpc = "new"
    /\ document_structure' = structure_file
    /\ xpc' = "ready"
    /\ UNCHANGED << structure_file, xresult >>
    /\ UNCHANGED << ledger, docs, listing, config, pc, locals, ended, hist,
                    filesDoneAtStart, docsDoneAtStart, ledgerAtStart, restart, prevStarted >>

\* lines 52-58: a Document for each Unit
DocumentOf(unit) ==
    [metadata |-> unit.metadata, name |-> "document", sentences |-> unit.sentences,
     title |-> unit.name, units |-> unit.units]

\* lines 30-60: extract(file), the file parsed to XmlFile with root node 1
ExtractFile(structure) ==
    LET units == extract_unit_information(structure, 1)
    IN IF units.err # "" THEN units
       ELSE Ok([k \in 1..Len(units.val) |-> DocumentOf(units.val[k])])

Extract ==
    /\ xpc = "ready"
    /\ xresult' = ExtractFile(document_structure)
    /\ xpc' = "done"
    /\ UNCHANGED << structure_file, document_structure >>
    /\ UNCHANGED << ledger, docs, listing, config, pc, locals, ended, hist,
                    filesDoneAtStart, docsDoneAtStart, ledgerAtStart, restart, prevStarted >>

\* a StructureExtractor about to be built on one of the grammars; no
\* collection is being processed
InitExtractor ==
    /\ structure_file \in Grammars
    /\ document_structure = <<>>
    /\ xpc = "new"
    /\ xresult = <<>>
    /\ ledger = EmptyLedger
    /\ ledgerAtStart = EmptyLedger
    /\ InitRun
    /\ listing = [i \in 1..MaxFiles |-> Regular]
    /\ docs = {}
    /\ config = [GRAMMATICAL_PROCESSING |-> FALSE, WORD_TO_WORD_SIMILARITY |-> FALSE,
                 PART_OF_SPEECH_TAGGING |-> FALSE]

NextExtractor ==
    \/ Construct
    \/ Extract

SpecExtractor == InitExtractor /\ [][NextExtractor]_vars

\* ------------------------------------------- ledgers left by earlier runs
RECURSIVE TokensOf(_)
\* the marker string "[i][j]..." for a set of indices, ascending
TokensOf(S) ==
    IF S = {} THEN sEmpty
    ELSE LET m == CHOOSE x \in S : \A y \in S : x <= y
         IN Token(m) \o TokensOf(S \ {m})

\* a ledger whose per-file marker holds the tokens of some set of indices
InitResume ==
    /\ \E S \in SUBSET (1..MaxFiles) :
          ledger = [EmptyLedger EXCEPT ![kFiles] = TokensOf(S)]
    /\ ledgerAtStart = ledger
    /\ InitEnv
    /\ InitRun
    /\ ExtractorOff

TrueSpellings == {sTrue, sTrueCap, sTrueUpper}

\* a ledger whose stage flags are "false" or one spelling of "true"; the
\* directory holds MaxFiles plain files and the table MaxDocs documents
InitFlags ==
    /\ \E v \in TrueSpellings, K \in SUBSET FlagKeys, m \in BOOLEAN :
          ledger = [k \in Keys |->
                      IF k \in FlagKeys THEN (IF k \in K THEN v ELSE sFalse)
                      ELSE IF k = kFiles THEN (IF m THEN IntToStr(1) ELSE sEmpty)
                      ELSE (IF m THEN IntToStr(1) ELSE sEmpty)]
    /\ ledgerAtStart = ledger
    /\ listing = [i \in 1..MaxFiles |-> Regular]
    /\ docs = 1..MaxDocs
    /\ config \in Configs
    /\ InitRun
    /\ ExtractorOff

SpecResume == InitResume /\ [][Next]_vars

SpecFlags == InitFlags /\ [][Next]_vars

\* ------------------------------------------------------------ properties
Candidates == 1..Len(Contents(listing))

Visible == {i \in Candidates : ~Contents(listing)[i].hidden}

\* the indices whose token "[i]" the marker held when the run started
MarkedAtStart == {i \in Candidates : Contains(Token(i), ledgerAtStart[kFiles])}

\* the indices whose token "[i]" the marker holds now
MarkedNow == {i \in Candidates : Contains(Token(i), ledger[kFiles])}

RECURSIVE Ascending(_)
Ascending(S) ==
    IF S = {} THEN <<>>
    ELSE LET m == CHOOSE x \in S : \A y \in S : x <= y
         IN <<m>> \o Ascending(S \ {m})

IsPrefix(p, q) == Len(p) <= Len(q) /\ SubSeq(q, 1, Len(p)) = p

\* C1: one run of the extraction stage hands to the extractor exactly the
\* visible files whose token "[i]" was absent from the marker at the start,
\* each once, and never a file whose token was present.
C1_Resumability ==
    /\ Range(extractLog) \cap MarkedAtStart = {}
    /\ pc = "finish_extract" => extractLog = Ascending(Visible \ MarkedAtStart)

\* C2: a run that restarts a call aborted during extraction re-invokes the
\* extractor for at most one file the aborted call had started, and for no
\* file whose extraction and marker write had completed before the abort.
C2_CrashRestart ==
    restart =>
        /\ Cardinality(Range(extractLog) \cap prevStarted) <= 1
        /\ Range(extractLog) \cap filesDoneAtStart = {}

AllFlagsTrue(led) == \A k \in FlagKeys : led[k] = sTrue

\* C3: a run started (without reset) on a ledger whose five stage flags are
\* "true" invokes neither extractor nor parser and leaves every ledger key
\* as it was, whatever the toggles.
C3_IdempotentNoop ==
    AllFlagsTrue(ledgerAtStart) =>
        /\ extractLog = <<>>
        /\ parseLog = <<>>
        /\ ledger = ledgerAtStart

C3_Witness ==
    /\ AllFlagsTrue(ledgerAtStart)
    /\ pc = "idle"
    /\ halt = "returned"
    /\ ParsingEnabled(config)
    /\ Visible # {}
    /\ docs # {}

\* C4: the extraction flag is "true" only if every visible candidate file
\* has been extracted or is marked in the ledger; inside the extraction
\* stage the flag is never "true", and once the first file has been taken
\* up it is "false" until the loop ends.
C4_FlagInvariant ==
    /\ FlagTrueExact(ledger, kRecorded) => Visible \subseteq (filesExtracted \cup MarkedNow)
    /\ pc \in ExtractPcs => ~FlagTrueExact(ledger, kRecorded)
    /\ (pc \in ExtractPcs /\ (extractLog # <<>> \/ pc = "extract"))
          => ledger[kRecorded] = sFalse

C4_Witness ==
    /\ FlagTrueExact(ledger, kRecorded)
    /\ restart
    /\ Cardinality(Visible) >= 2
    /\ Cardinality(Range(extractLog)) >= 2

\* C5: when parse_documents has run to its end, the grammatical-processing
\* flag is "true".
C5_GrammarFlagSet == pc = "parsed" => FlagTrueLower(ledger, kGrammar)

Last(q) == q[Len(q)]

MaxOf(S) == CHOOSE x \in S : \A y \in S : y <= x

\* the documents a run has to parse, given the marker it read when it started
ToParse == SelectSeq(Documents, LAMBDA id : id > LatestId(ledgerAtStart))

FileRecorded(led, i) == led[kFiles] = IntToStr(i) \/ Contains(Token(i), led[kFiles])

\* the marker values after the last unit the run completed
FilesMarkerAfter(q) ==
    IF Len(q) > 1 THEN IntToStr(q[Len(q) - 1]) ELSE ledgerAtStart[kFiles]

LatestMarkerAfter(q) ==
    IF Len(q) > 1 THEN IntToStr(q[Len(q) - 1]) ELSE ledgerAtStart[kLatest]

\* C7: when the extractor or the parser raises, the run halts with both
\* markers at the values they had after the last completed file/document;
\* a marker never names a unit whose extraction or parse has not returned.
C7_LedgerOnFailure ==
    /\ halt = "raised" => pc = "idle"
    /\ (halt = "raised" /\ haltAt = "extraction") =>
          /\ ledger[kFiles] = FilesMarkerAfter(extractLog)
          /\ ledger[kLatest] = ledgerAtStart[kLatest]
    /\ (halt = "raised" /\ haltAt = "parsing") =>
          ledger[kLatest] = LatestMarkerAfter(parseLog)
    /\ \A i \in Candidates : FileRecorded(ledger, i) => i \in filesExtracted
    /\ \A d \in docs : ledger[kLatest] = IntToStr(d) => d \in docsParsed

C7_Witness ==
    /\ halt = "raised"
    /\ haltAt = "extraction"
    /\ Len(extractLog) > 1

\* C8: a stage whose flag held "true" in any letter case when the run
\* started is skipped: no extraction, no parsing, no rewrite of the
\* word-count flag.
C8_CaseInsensitiveFlags ==
    /\ FlagTrueLower(ledgerAtStart, kRecorded) => (pc \notin ExtractPcs /\ extractLog = <<>>)
    /\ FlagTrueLower(ledgerAtStart, kGrammar) => (pc \notin ParsePcs /\ parseLog = <<>>)
    /\ FlagTrueLower(ledgerAtStart, kCounts) => ledger[kCounts] = ledgerAtStart[kCounts]

\* the nested Units of a Document or Unit
NestedUnits(u) == Range(u.units)

\* C9: in the Units built for a rule, a child rule whose structureName
\* contains "sentence" contributes Sentences only, never nested Units, and the
\* other child rules contribute nested Units only: no nested Unit carries a
\* "sentence" name, and Sentences are present only if some child rule is a
\* "sentence" rule.
C9_TerminalClassification ==
    (xpc = "done" /\ xresult.err = "") =>
        \A k \in 1..Len(xresult.val) :
            /\ \A u \in NestedUnits(xresult.val[k]) : ~Contains(sSentence, u.name)
            /\ xresult.val[k].sentences # <<>> =>
                  \E n \in 1..Len(document_structure.units) :
                      Contains(sSentence, document_structure.units[n].structureName)

RECURSIVE WithDefaults(_)
\* the grammar with every absent "metadata" or "units" made an empty list
WithDefaults(rule) ==
    [rule EXCEPT !.keys = BothKeys,
                 !.units = [n \in 1..Len(rule.units) |-> WithDefaults(rule.units[n])]]

RECURSIVE MissesKey(_)
MissesKey(rule) ==
    \/ rule.keys # BothKeys
    \/ \E n \in 1..Len(rule.units) : MissesKey(rule.units[n])

\* C10: with "metadata" or "units" absent from a rule the extraction raises
\* no KeyError and yields what it yields for the same grammar with the
\* absent fields written as empty lists.
C10_AbsentOptionalFields ==
    (xpc = "done" /\ MissesKey(document_structure)) =>
        /\ xresult.err # "KeyError"
        /\ xresult = ExtractFile(WithDefaults(document_structure))

\* ------------------------------------------------ missing attributes
\* the values of an attribute under "skip this match": the space-separated
\* tokens where the node carries the attribute, nothing where it does not
SkippingValues(n, attribute) ==
    IF attribute \in DOMAIN XmlFile[n].attrs
    THEN SplitOn(XmlFile[n].attrs[attribute], " ")
    ELSE <<>>

\* what one XPath of a metadata rule extracts under "skip this match"
SkippingExtracted(spec, xpath, n) ==
    IF spec.attr = NoneAttr THEN get_xpath_text(xpath, n).val
    ELSE IF IsBlank(xpath) THEN SkippingValues(n, spec.attr)
    ELSE Flatten([k \in 1..Len(XPathEval(n, xpath)) |->
                     SkippingValues(XPathEval(n, xpath)[k], spec.attr)])

\* the Metadata of a node under "skip this match": rule by rule, XPath by
\* XPath, match by match, token by token
SkippingMetadata(metadata_structure, n) ==
    Flatten([i \in 1..Len(metadata_structure) |->
                Flatten([j \in 1..Len(metadata_structure[i].xpaths) |->
                            MetadataFor(SkippingExtracted(metadata_structure[i],
                                            metadata_structure[i].xpaths[j], n),
                                        metadata_structure[i])])])

\* the metadata rules that read an attribute
AttrRules(metadata_structure) ==
    {i \in 1..Len(metadata_structure) : metadata_structure[i].attr # NoneAttr}

\* C11: a grammar whose top rule has metadata rules reading an attribute and
\* no child rules is extracted without an error, and every Document carries
\* the Metadata of its node under the missing-attribute policy: nothing for a
\* node without the attribute, one Metadata per space-separated token of the
\* value otherwise, and the Metadata of every other match and later rule.
C11_MissingAttributePolicy ==
    (/\ xpc = "done"
     /\ document_structure.keys = BothKeys
     /\ document_structure.units = <<>>
     /\ AttrRules(document_structure.metadata) # {}) =>
        /\ xresult.err = ""
        /\ Len(xresult.val) = Len(CandidateNodes(document_structure, 1, 1))
        /\ \A k \in 1..Len(xresult.val) :
               xresult.val[k].metadata =
                   SkippingMetadata(document_structure.metadata,
                                    CandidateNodes(document_structure, 1, 1)[k])

\* ------------------------------------------------ sentence accumulation
\* the child rules of a rule that are terminal: their name contains "sentence"
TerminalRules(structure) ==
    {n \in 1..Len(structure.units) : IsSentenceRule(structure.units[n].structureName)}

\* the Sentences of every terminal child rule for one node, in declaration order
AccumulatedSentences(structure, node) ==
    Flatten([n \in 1..Len(structure.units) |->
                IF n \in TerminalRules(structure)
                THEN get_sentences(structure.units[n], node).val
                ELSE <<>>])

\* sentence segmentation succeeds for every terminal child rule on every
\* candidate node of the rule
SegmentationSucceeds(structure, parent_node) ==
    \A j \in 1..Len(CandidateNodes(structure, parent_node, 1)) :
        \A n \in TerminalRules(structure) :
            get_sentences(structure.units[n],
                          CandidateNodes(structure, parent_node, 1)[j]).err = ""

\* C12: when the top rule declares several terminal child rules and the
\* extraction succeeds, there is one Document per candidate node, in XPath
\* list order then document order, and each holds the Sentences of every
\* terminal child rule for its node, in child-rule declaration order: no
\* rule's Sentences are discarded or overwritten.
C12_SentenceAccumulation ==
    (/\ xpc = "done"
     /\ xresult.err = ""
     /\ Cardinality(TerminalRules(document_structure)) >= 2
     /\ SegmentationSucceeds(document_structure, 1)) =>
        /\ Len(xresult.val) = Len(CandidateNodes(document_structure, 1, 1))
        /\ \A k \in 1..Len(xresult.val) :
               xresult.val[k].sentences =
                   AccumulatedSentences(document_structure,
                                        CandidateNodes(document_structure, 1, 1)[k])

\* ------------------------------------------------------ stage ordering
\* the extraction stage of this run was skipped on its flag (line 56), or its
\* loop ran past the last file of the directory (lines 123-144)
ExtractionSkippedOrComplete ==
    \/ FlagTrueExact(ledgerAtStart, kRecorded) /\ extractLog = <<>>
    \/ /\ ~FlagTrueExact(ledgerAtStart, kRecorded)
       /\ num_files_done = Len(Contents(listing)) + 1

\* the parsing stage of this run was skipped (lines 62-65), or its loop ran
\* past the last document with every document above the marker parsed
ParsingSkippedOrReturned ==
    \/ ~ParsingEnabled(config)
    \/ FlagTrueLower(ledger, kGrammar) /\ parseLog = <<>>
    \/ /\ documents_parsed = Len(Documents)
       /\ \A k \in 1..Len(Documents) :
              NeedsParsing(Documents[k], latest_id) => Documents[k] \in Range(parseLog)

\* a step that writes the word-count flag (line 73)
WordCountsWritten == ledger'[kCounts] = sTrue /\ ledger[kCounts] # sTrue

\* C13: while process is inside the parsing stage the recording flag is
\* "true", the extraction stage having been skipped on its flag or having run
\* to the end of the directory; and the word-count flag is written only once
\* the parsing stage has returned or been skipped.
C13_StageOrdering ==
    /\ [](pc \in ParsePcs =>
             (ledger[kRecorded] = sTrue /\ ExtractionSkippedOrComplete))
    /\ [][WordCountsWritten =>
             (pc = "gate_counts" /\ ExtractionSkippedOrComplete
                                 /\ ParsingSkippedOrReturned)]_vars

\* a run that extracted files and parsed documents has written the word-count flag
C13_Witness ==
    /\ pc = "gate_tfidf"
    /\ extractLog # <<>>
    /\ parseLog # <<>>
    /\ ledger[kCounts] = sTrue
    /\ ledgerAtStart[kCounts] # sTrue

====
